---- MODULE Spec2Model ----
(***************************************************************************)
(* Token verification and JWKS cache of app/core/auth.py.                  *)
(*                                                                         *)
(* Every request runs get_current_user in a worker thread (the dependency  *)
(* is a plain "def", which FastAPI runs in its thread pool), so the        *)
(* module-level dict _jwks_cache is shared by threads that interleave      *)
(* between any two accesses of it.  Each access of the dict is one step.   *)
(***************************************************************************)
EXTENDS Integers, Sequences, FiniteSets, TLC

VARIABLES
    settings,      \* Settings: cognito_user_pool_id, cognito_client_id, aws_region
    now,           \* the clock read by time.time() and by jwt.decode
    ticks,         \* how many times the clock has advanced
    jwks_cache,    \* _jwks_cache: [keys, fetched_at]
    origin,        \* which fetch wrote jwks_cache.keys / .fetched_at; the keys' writer's current_time
    nfetch,        \* number of httpx.get calls made so far (fetch counter)
    pc,            \* per thread: the position in the request's code
    req,           \* per thread: the request's [cred, cookie]
    loc,           \* per thread: locals (token, current_time, fetched keys, jwks, claims)
    log,           \* per thread: what this request did (verifier input, cache calls, fetches)
    result         \* per thread: the response of the last finished request

vars == <<settings, now, ticks, jwks_cache, origin, nfetch, pc, req, loc, log, result>>

----------------------------------------------------------------------------
(* Bounds *)

MaxTicks == 2
MaxFetches == 2
StartTime == 10000

(* Program constants *)

JWKS_CACHE_TTL == 3600

HTTP_401_UNAUTHORIZED == 401
HTTP_503_SERVICE_UNAVAILABLE == 503

----------------------------------------------------------------------------
(* Values *)

None == "None"

\* Clock steps: one second, and one second short of the TTL.
TickSteps == {1, JWKS_CACHE_TTL - 1}

\* Settings (app/config.py): the empty string is the default of both ids.
PoolIds == {"", "eu-west-1_pool"}
ClientIds == {"", "client-1"}

SettingsSet ==
    [cognito_user_pool_id : PoolIds, cognito_client_id : ClientIds, aws_region : {"eu-west-1"}]

\* Settings.cognito_issuer: the f-string, as the sequence of its parts.
cognito_issuer(s) ==
    <<"https://cognito-idp.", s.aws_region, ".amazonaws.com/", s.cognito_user_pool_id>>

\* Settings.cognito_jwks_url
cognito_jwks_url(s) == cognito_issuer(s) \o <<"/.well-known/jwks.json">>

\* A JWK: its key identifier and its key material (n stands for modulus/exponent).
K1 == [kid |-> "k1", n |-> 1]
K2 == [kid |-> "k2", n |-> 2]

\* The "keys" lists the provider may publish: none, K1, and K1 with the new K2.
KeyDocs == {<< >>, <<K1>>, <<K1, K2>>}

\* What httpx.get can come back with: a transport error (no response), or a
\* response with a status and a body.  A body is not JSON, a JSON array, a JSON
\* object without "keys", or a JSON object with a "keys" list.
Bodies ==
    {[shape |-> "nonjson", keys |-> << >>],
     [shape |-> "array", keys |-> << >>],
     [shape |-> "object", keys |-> << >>]}
    \cup {[shape |-> "jwks", keys |-> d] : d \in KeyDocs}

Responses ==
    {[status |-> "transport", body |-> [shape |-> "nonjson", keys |-> << >>]],
     [status |-> "500", body |-> [shape |-> "nonjson", keys |-> << >>]]}
    \cup {[status |-> "200", body |-> b] : b \in Bodies}

----------------------------------------------------------------------------
(* Tokens *)

OtherIssuer == <<"https://issuer.example/other">>

\* The payload of a token: iss, aud, exp (e = << >>: no exp claim) and email
\* (m = << >>: no email claim) as given; username stands for the
\* provider-specific claims.
Payload(iss, aud, e, m) ==
    (([sub |-> "user-1", token_use |-> "id", username |-> "alice",
       iss |-> iss, aud |-> aud] @@ e) @@ m)

Email == [email |-> "alice@example.com"]

\* The exp claims tokens carry: absent, or around the time the model starts at.
ExpClaims == {<< >>} \cup {[exp |-> e] : e \in {StartTime - 1, StartTime, StartTime + 1}}

\* The payload with every claim as configured and exp = e.
GoodPayload(s, e) == Payload(cognito_issuer(s), s.cognito_client_id, [exp |-> e], Email)

\* iss and aud right or wrong with every exp; and a good payload without email.
Payloads(s) ==
    {Payload(i, a, e, Email) :
        i \in {cognito_issuer(s), OtherIssuer},
        a \in {s.cognito_client_id, "other-client"},
        e \in ExpClaims}
    \cup {Payload(cognito_issuer(s), s.cognito_client_id, [exp |-> StartTime + 1], << >>)}

EmptyToken == [form |-> "empty", kid |-> None, signer |-> 0, payload |-> << >>]
GarbageToken == [form |-> "garbage", kid |-> None, signer |-> 0, payload |-> << >>]

\* The well-formed token of key k with every claim as configured and exp = e.
GoodToken(s, k, e) ==
    [form |-> "jwt", kid |-> k.kid, signer |-> k.n, payload |-> GoodPayload(s, e)]

\* Well-formed JWTs: the kid of the header, the key material that signed the
\* token (0: none of the provider's keys) and the payload.  Every payload under
\* K1's kid and signature, and every kid and signer around a good payload.
JwtTokens(s) ==
    [form : {"jwt"}, kid : {"k1"}, signer : {1}, payload : Payloads(s)]
    \cup [form : {"jwt"}, kid : {"k1", "k2", None}, signer : {0, 1, 2},
          payload : {GoodPayload(s, StartTime + 1)}]

AllTokens(s) == {GarbageToken} \cup JwtTokens(s)

FewTokens(s) == {GarbageToken, GoodToken(s, K1, StartTime + 1)}

\* Truthy testing "is not None" where None and "" are one value.
Truthy_always(tok) == TRUE

\* Python truthiness of a token string.
Truthy(tok) == tok.form # "empty"

Option(S) == {<< >>} \cup {<<x>> : x \in S}

\* A request: the bearer credentials of the Authorization header (HTTPBearer with
\* auto_error=False gives None unless a non-empty bearer token is there) and the
\* access_token cookie (absent, empty or a token).
\* Every token alone in the header; a few tokens in the cookie, alone and
\* beside a few tokens in the header.
Requests(s) ==
    [cred : Option(AllTokens(s)), cookie : {<< >>}]
    \cup [cred : Option(FewTokens(s)), cookie : Option({EmptyToken} \cup FewTokens(s))]

\* The requests of the concurrent specification.
FewRequests(s) ==
    {[cred |-> << >>, cookie |-> << >>],
     [cred |-> <<GoodToken(s, K1, StartTime + 1)>>, cookie |-> << >>]}

\* The answers of the key-set endpoint in the concurrent specification.
FewResponses ==
    {[status |-> "500", body |-> [shape |-> "nonjson", keys |-> << >>]],
     [status |-> "200", body |-> [shape |-> "jwks", keys |-> <<K1>>]],
     [status |-> "200", body |-> [shape |-> "jwks", keys |-> <<K1, K2>>]]}

----------------------------------------------------------------------------
(* Pure functions *)

Min(S) == CHOOSE x \in S : \A y \in S : x <= y

\* get_signing_key falling back to the first key of the list.
get_signing_key_first(token, jwks) ==
    IF token.form # "jwt" \/ jwks = << >> THEN << >>
    ELSE LET hits == {i \in 1..Len(jwks) : jwks[i].kid = token.kid}
         IN  IF hits = {} THEN <<jwks[1]>> ELSE <<jwks[Min(hits)]>>

\* _get_signing_key: None (<< >>) when the header cannot be parsed or no key has
\* the header's kid, else the first key of the list with that kid.
get_signing_key(token, jwks) ==
    IF token.form # "jwt" THEN << >>
    ELSE LET kid == token.kid
             hits == {i \in 1..Len(jwks) : jwks[i].kid = kid}
         IN  IF hits = {} THEN << >> ELSE <<jwks[Min(hits)]>>

\* The expiry check of jwt.decode with verify_exp and the default leeway of 0:
\* python-jose raises ExpiredSignatureError when exp < now.
exp_passed(exp, t) == exp < t

\* jwt.decode(token, key, algorithms=["RS256"], audience=, issuer=, options=...):
\* the signature first, then exp, aud and iss in that order.  err is "" on success.
jwt_decode(token, key, audience, issuer, t) ==
    LET c == token.payload IN
    IF token.signer # key.n THEN [err |-> "signature", claims |-> c]
    ELSE IF "exp" \in DOMAIN c /\ exp_passed(c.exp, t) THEN [err |-> "expired", claims |-> c]
    ELSE IF "aud" \in DOMAIN c /\ c.aud # audience THEN [err |-> "audience", claims |-> c]
    ELSE IF "iss" \notin DOMAIN c \/ c.iss # issuer THEN [err |-> "issuer", claims |-> c]
    ELSE [err |-> "", claims |-> c]

\* dict.get(key): None when the key is absent.
Get(c, k) == IF k \in DOMAIN c THEN c[k] ELSE None

\* Identity passing every claim on.
Identity_all(claims) == claims

\* The dict get_current_user returns.
Identity(claims) ==
    [sub |-> Get(claims, "sub"), email |-> Get(claims, "email"),
     token_use |-> Get(claims, "token_use")]

\* The claims of mock mode.
MockClaims == [sub |-> "mock-user-id", email |-> "mock@example.com", token_use |-> "access"]

\* MockMode with the test inverted: mock mode when both ids are set.
MockMode_inverted(s) == s.cognito_user_pool_id # "" /\ s.cognito_client_id # ""

\* MockMode with "and" for "or": mock mode only when both ids are empty.
MockMode_both(s) == s.cognito_user_pool_id = "" /\ s.cognito_client_id = ""

\* not settings.cognito_user_pool_id or not settings.cognito_client_id
MockMode(s) == s.cognito_user_pool_id = "" \/ s.cognito_client_id = ""

\* Responses of the request.
Ok(identity) == [status |-> 200, detail |-> "", body |-> <<identity>>]
HTTPException(code, detail) == [status |-> code, detail |-> detail, body |-> << >>]
\* An exception no handler catches: the server answers 500.
Unhandled(what) == [status |-> 500, detail |-> what, body |-> << >>]

NoTokenDetail == "No se proporciono token de autenticacion"

\* The exception jwt.decode's failure is turned into.
DecodeError(err) ==
    IF err = "expired" THEN HTTPException(HTTP_401_UNAUTHORIZED, "Token has expired")
    ELSE IF err = "signature"
         THEN HTTPException(HTTP_401_UNAUTHORIZED, "Invalid token: Signature verification failed.")
    ELSE IF err = "audience"
         THEN HTTPException(HTTP_401_UNAUTHORIZED, "Invalid token: Invalid audience")
    ELSE HTTPException(HTTP_401_UNAUTHORIZED, "Invalid token: Invalid issuer")

\* FetchOutcome without response.raise_for_status().
FetchOutcome_no_raise(resp) ==
    IF resp.status = "transport" THEN [kind |-> "http_error", keys |-> << >>]
    ELSE IF resp.body.shape = "nonjson" THEN [kind |-> "error", keys |-> << >>]
    ELSE IF resp.body.shape = "array" THEN [kind |-> "error", keys |-> << >>]
    ELSE IF resp.body.shape = "object" THEN [kind |-> "keys", keys |-> << >>]
    ELSE [kind |-> "keys", keys |-> resp.body.keys]

\* The try block of _get_jwks up to the value assigned at line 45: what the
\* response leads to.  "keys": the list to store; "http_error": httpx.HTTPError
\* (caught); "error": another exception (not caught).
FetchOutcome(resp) ==
    IF resp.status = "transport" THEN [kind |-> "http_error", keys |-> << >>]
    ELSE IF resp.status # "200" THEN [kind |-> "http_error", keys |-> << >>]
    ELSE IF resp.body.shape = "nonjson" THEN [kind |-> "error", keys |-> << >>]
    ELSE IF resp.body.shape = "array" THEN [kind |-> "error", keys |-> << >>]
    ELSE IF resp.body.shape = "object" THEN [kind |-> "keys", keys |-> << >>]
    ELSE [kind |-> "keys", keys |-> resp.body.keys]

----------------------------------------------------------------------------
(* State *)

Threads == {1, 2}

NoRequest == [cred |-> << >>, cookie |-> << >>]
NoResult == [status |-> 0, detail |-> "", body |-> << >>]

InitLoc ==
    [token |-> EmptyToken, current_time |-> 0, fid |-> 0,
     newkeys |-> << >>, jwks |-> << >>, claims |-> << >>]

\* The record of one request: the tokens handed to _decode_and_validate_token,
\* the calls of _get_jwks, the cache and the fetch counter as the call found
\* them, the response httpx.get gave, the fetches made, and the time jwt.decode
\* read.
InitLog ==
    [verified |-> << >>, jwks_calls |-> 0, fetches |-> 0,
     pre |-> [keys |-> << >>, fetched_at |-> 0], pre_nfetch |-> 0, resp |-> << >>,
     verified_at |-> 0]

Init ==
    /\ settings \in SettingsSet
    /\ now = StartTime
    /\ ticks = 0
    /\ jwks_cache = [keys |-> << >>, fetched_at |-> 0]
    /\ origin = [keys |-> 0, fetched_at |-> 0, keys_time |-> 0]
    /\ nfetch = 0
    /\ pc = [p \in Threads |-> "idle"]
    /\ req = [p \in Threads |-> NoRequest]
    /\ loc = [p \in Threads |-> InitLoc]
    /\ log = [p \in Threads |-> InitLog]
    /\ result = [p \in Threads |-> NoResult]

Goto(p, label) == pc' = [pc EXCEPT ![p] = label]

\* The request ends with response r.
Finish(p, r) ==
    /\ Goto(p, "done")
    /\ result' = [result EXCEPT ![p] = r]

----------------------------------------------------------------------------
(* Actions *)

\* The clock advances.
Tick(d) ==
    /\ ticks < MaxTicks
    /\ now' = now + d
    /\ ticks' = ticks + 1
    /\ UNCHANGED <<settings, jwks_cache, origin, nfetch, pc, req, loc, log, result>>

\* PickToken with the cookie first.
PickToken_cookie_first(r) ==
    IF r.cookie # << >> /\ Truthy(r.cookie[1]) THEN r.cookie[1]
    ELSE IF r.cred # << >> THEN r.cred[1]
    ELSE EmptyToken

\* The token get_current_user picks (lines 158-162): the header's, else a
\* truthy cookie's, else None (the empty token stands for None).
PickToken(r) ==
    IF r.cred # << >> THEN r.cred[1]
    ELSE IF r.cookie # << >> /\ Truthy(r.cookie[1]) THEN r.cookie[1]
    ELSE EmptyToken

\* get_current_user, lines 157-170: request r arrives at thread p.
get_current_user(p, r) ==
    /\ pc[p] = "idle"
    /\ req' = [req EXCEPT ![p] = r]
    /\ log' = [log EXCEPT ![p] = InitLog]
    /\ LET token == PickToken(r) IN
       IF ~Truthy(token)
       THEN /\ Finish(p, HTTPException(HTTP_401_UNAUTHORIZED, NoTokenDetail))
            /\ loc' = [loc EXCEPT ![p] = InitLoc]
       ELSE /\ Goto(p, "decode")
            /\ loc' = [loc EXCEPT ![p] = [InitLoc EXCEPT !.token = token]]
            /\ result' = [result EXCEPT ![p] = NoResult]
    /\ UNCHANGED <<settings, now, ticks, jwks_cache, origin, nfetch>>

\* _decode_and_validate_token, lines 93-101: mock mode, or on to _get_jwks.
decode_and_validate_token(p) ==
    /\ pc[p] = "decode"
    /\ log' = [log EXCEPT ![p].verified = Append(@, loc[p].token)]
    /\ IF MockMode(settings)
       THEN /\ loc' = [loc EXCEPT ![p].claims = <<MockClaims>>]
            /\ Goto(p, "respond")
       ELSE /\ Goto(p, "get_jwks")
            /\ UNCHANGED loc
    /\ UNCHANGED <<settings, now, ticks, jwks_cache, origin, nfetch, req, result>>

\* _get_jwks, line 34: current_time = time.time().
get_jwks(p) ==
    /\ pc[p] = "get_jwks"
    /\ loc' = [loc EXCEPT ![p].current_time = now]
    /\ log' = [log EXCEPT ![p].jwks_calls = @ + 1,
                           ![p].pre = jwks_cache,
                           ![p].pre_nfetch = nfetch]
    /\ Goto(p, "check_keys")
    /\ UNCHANGED <<settings, now, ticks, jwks_cache, origin, nfetch, req, result>>

\* Line 37, left operand: _jwks_cache["keys"] is truthy.
check_keys(p) ==
    /\ pc[p] = "check_keys"
    /\ IF jwks_cache.keys # << >> THEN Goto(p, "check_ttl") ELSE Goto(p, "fetch")
    /\ UNCHANGED <<settings, now, ticks, jwks_cache, origin, nfetch, req, loc, log, result>>

\* Fresh with the comparison off by one.
Fresh_le(current_time, fetched_at) == (current_time - fetched_at) <= JWKS_CACHE_TTL

\* The freshness test of line 37.
Fresh(current_time, fetched_at) == (current_time - fetched_at) < JWKS_CACHE_TTL

\* Line 37, right operand: (current_time - _jwks_cache["fetched_at"]) < JWKS_CACHE_TTL.
check_ttl(p) ==
    /\ pc[p] = "check_ttl"
    /\ IF Fresh(loc[p].current_time, jwks_cache.fetched_at)
       THEN Goto(p, "return_cached")
       ELSE Goto(p, "fetch")
    /\ UNCHANGED <<settings, now, ticks, jwks_cache, origin, nfetch, req, loc, log, result>>

\* Line 38: return _jwks_cache["keys"].
return_cached(p) ==
    /\ pc[p] = "return_cached"
    /\ loc' = [loc EXCEPT ![p].jwks = jwks_cache.keys]
    /\ Goto(p, "verify")
    /\ UNCHANGED <<settings, now, ticks, jwks_cache, origin, nfetch, req, log, result>>

\* What an httpx.HTTPError is turned into (lines 48-52).
FetchFailed(resp) ==
    HTTPException(HTTP_503_SERVICE_UNAVAILABLE,
                  IF resp.status = "transport" THEN "Could not fetch JWKS: transport error"
                  ELSE "Could not fetch JWKS: server error")

\* Lines 42-45 (right-hand side): httpx.get answers resp.
fetch(p, resp) ==
    /\ pc[p] = "fetch"
    /\ nfetch < MaxFetches
    /\ nfetch' = nfetch + 1
    /\ log' = [log EXCEPT ![p].fetches = @ + 1, ![p].resp = <<resp>>]
    /\ LET out == FetchOutcome(resp) IN
       IF out.kind = "keys"
       THEN /\ loc' = [loc EXCEPT ![p].newkeys = out.keys, ![p].fid = nfetch + 1]
            /\ Goto(p, "store_keys")
            /\ UNCHANGED result
       ELSE /\ UNCHANGED loc
            /\ IF out.kind = "http_error"
               THEN Finish(p, FetchFailed(resp))
               ELSE Finish(p, Unhandled(resp.body.shape))
    /\ UNCHANGED <<settings, now, ticks, jwks_cache, origin, req>>

\* Line 45: _jwks_cache["keys"] = ...
store_keys(p) ==
    /\ pc[p] = "store_keys"
    /\ jwks_cache' = [jwks_cache EXCEPT !.keys = loc[p].newkeys]
    /\ origin' = [origin EXCEPT !.keys = loc[p].fid, !.keys_time = loc[p].current_time]
    /\ Goto(p, "store_fetched_at")
    /\ UNCHANGED <<settings, now, ticks, nfetch, req, loc, log, result>>

\* Line 46: _jwks_cache["fetched_at"] = current_time
store_fetched_at(p) ==
    /\ pc[p] = "store_fetched_at"
    /\ jwks_cache' = [jwks_cache EXCEPT !.fetched_at = loc[p].current_time]
    /\ origin' = [origin EXCEPT !.fetched_at = loc[p].fid]
    /\ Goto(p, "return_fetched")
    /\ UNCHANGED <<settings, now, ticks, nfetch, req, loc, log, result>>

\* Line 47: return _jwks_cache["keys"].
return_fetched(p) ==
    /\ pc[p] = "return_fetched"
    /\ loc' = [loc EXCEPT ![p].jwks = jwks_cache.keys]
    /\ Goto(p, "verify")
    /\ UNCHANGED <<settings, now, ticks, jwks_cache, origin, nfetch, req, log, result>>

\* Lines 102-133: the key lookup and jwt.decode, which reads the clock.
verify(p) ==
    /\ pc[p] = "verify"
    /\ log' = [log EXCEPT ![p].verified_at = now]
    /\ LET signing_key == get_signing_key(loc[p].token, loc[p].jwks) IN
       IF signing_key = << >>
       THEN /\ Finish(p, HTTPException(HTTP_401_UNAUTHORIZED, "Invalid token signature"))
            /\ UNCHANGED loc
       ELSE LET d == jwt_decode(loc[p].token, signing_key[1], settings.cognito_client_id,
                                cognito_issuer(settings), now)
            IN  IF d.err = ""
                THEN /\ loc' = [loc EXCEPT ![p].claims = <<d.claims>>]
                     /\ Goto(p, "respond")
                     /\ UNCHANGED result
                ELSE /\ Finish(p, DecodeError(d.err))
                     /\ UNCHANGED loc
    /\ UNCHANGED <<settings, now, ticks, jwks_cache, origin, nfetch, req>>

\* get_current_user, lines 172-176: the identity returned.
respond(p) ==
    /\ pc[p] = "respond"
    /\ Finish(p, Ok(Identity(loc[p].claims[1])))
    /\ UNCHANGED <<settings, now, ticks, jwks_cache, origin, nfetch, req, loc, log>>

\* The route handler returns the dependency's value or the exception is
\* answered; the thread is free for the next request.
get_current_user_profile(p) ==
    /\ pc[p] = "done"
    /\ Goto(p, "idle")
    /\ req' = [req EXCEPT ![p] = NoRequest]
    /\ loc' = [loc EXCEPT ![p] = InitLoc]
    /\ log' = [log EXCEPT ![p] = InitLog]
    /\ result' = [result EXCEPT ![p] = NoResult]
    /\ UNCHANGED <<settings, now, ticks, jwks_cache, origin, nfetch>>

----------------------------------------------------------------------------
(* Specifications *)

Step(p, responses) ==
    \/ decode_and_validate_token(p)
    \/ get_jwks(p)
    \/ check_keys(p)
    \/ check_ttl(p)
    \/ return_cached(p)
    \/ \E resp \in responses : fetch(p, resp)
    \/ store_keys(p)
    \/ store_fetched_at(p)
    \/ return_fetched(p)
    \/ verify(p)
    \/ respond(p)
    \/ get_current_user_profile(p)

\* Concurrent requests: two threads, a few tokens.
Next ==
    \/ \E d \in TickSteps : Tick(d)
    \/ \E p \in Threads :
          \E r \in FewRequests(settings) : get_current_user(p, r)
    \/ \E p \in Threads : Step(p, FewResponses)

Spec == Init /\ [][Next]_vars

\* One request at a time: a single thread, every token.
NextSeq ==
    \/ \E d \in TickSteps : Tick(d)
    \/ \E r \in Requests(settings) : get_current_user(1, r)
    \/ Step(1, Responses)

SpecSeq == Init /\ [][NextSeq]_vars

----------------------------------------------------------------------------
(* Properties *)

\* The call of _get_jwks of p's request is over: it returned or raised.
CallOver(p) == log[p].jwks_calls = 1 /\ pc[p] \in {"verify", "respond", "done"}

\* _get_jwks returned a key list to p's request, which is loc[p].jwks.
Returned(p) ==
    /\ CallOver(p)
    /\ log[p].resp # << >> => log[p].resp[1].status = "200"
                               /\ log[p].resp[1].body.shape \in {"object", "jwks"}

\* The cache as the call found it is empty or as old as the TTL at time t.
Stale(pre, t) == pre.keys = << >> \/ t - pre.fetched_at >= JWKS_CACHE_TTL

\* C1: a call of get_keys fetches if and only if the cache it finds is empty or
\* now - fetched_at >= TTL; otherwise it returns the cached keys, leaves the
\* cache as it was and the fetch counter does not increase.
C1_FetchIffStale ==
    \A p \in Threads :
        CallOver(p) =>
            /\ log[p].fetches = 1 <=> Stale(log[p].pre, loc[p].current_time)
            /\ log[p].fetches \in {0, 1}
            /\ ~Stale(log[p].pre, loc[p].current_time) =>
                   /\ loc[p].jwks = log[p].pre.keys
                   /\ jwks_cache = log[p].pre
                   /\ nfetch = log[p].pre_nfetch

\* A call served from a cache filled earlier, after the clock has advanced.
C1_Witness ==
    \E p \in Threads :
        /\ pc[p] = "verify"
        /\ log[p].fetches = 0
        /\ log[p].pre.keys # << >>
        /\ loc[p].jwks = log[p].pre.keys
        /\ loc[p].current_time > log[p].pre.fetched_at

\* The fetch of p's request failed: no response, or a non-success status.
FetchFailure(p) == log[p].resp # << >> /\ log[p].resp[1].status # "200"

AnyFetchFailure(p) ==
    /\ log[p].resp # << >>
    /\ \/ log[p].resp[1].status # "200"
       \/ log[p].resp[1].body.shape # "jwks"

\* C3: every kind of fetch failure (transport error, non-success status,
\* malformed body) ends the call with 503 and never with a key list.
C3_EveryFailureIs503 ==
    \A p \in Threads :
        AnyFetchFailure(p) =>
            /\ pc[p] = "done"
            /\ result[p].status = HTTP_503_SERVICE_UNAVAILABLE

\* C4: in every state the cache's keys and its fetched_at were written by the
\* same fetch.
C4_AtomicReplace == origin.keys = origin.fetched_at

\* C5: whenever no call is between the two assignments of lines 45 and 46, the
\* cache is empty and never fetched (no keys, fetched_at 0) or holds at least
\* one key and the timestamp of the fetch that gave the keys.
C5_EmptyOrFetched ==
    (\A p \in Threads : pc[p] # "store_fetched_at") =>
        \/ jwks_cache.keys = << >> /\ jwks_cache.fetched_at = 0
        \/ /\ Len(jwks_cache.keys) >= 1
           /\ jwks_cache.fetched_at > 0
           /\ origin.keys = origin.fetched_at

\* A provider is configured: both ids are set.
Configured == settings.cognito_user_pool_id # "" /\ settings.cognito_client_id # ""

\* The verifier is through with p's token against the key list loc[p].jwks.
Verified(p) == Configured /\ Returned(p) /\ pc[p] \in {"respond", "done"}

\* No key of the list has the token's key identifier.
NoKeyFor(token, jwks) == \A i \in 1..Len(jwks) : jwks[i].kid # token.kid

\* C6: with a provider configured, a token whose key identifier matches no key
\* of the key set fails with 401 "Invalid token signature" and no identity, with
\* one call of the cache and no fetch but the one a stale cache asks for.
C6_UnknownKidRejected ==
    \A p \in Threads :
        (Verified(p) /\ NoKeyFor(loc[p].token, loc[p].jwks)) =>
            /\ pc[p] = "done"
            /\ result[p] = [status |-> HTTP_401_UNAUTHORIZED,
                            detail |-> "Invalid token signature", body |-> << >>]
            /\ log[p].jwks_calls = 1
            /\ log[p].fetches <= 1
            /\ log[p].fetches = 1 => Stale(log[p].pre, loc[p].current_time)

\* A well-formed token of kid k2 is refused against the key set of K1 alone.
C6_Witness ==
    \E p \in Threads :
        /\ Verified(p)
        /\ loc[p].token.form = "jwt"
        /\ loc[p].token.kid = "k2"
        /\ loc[p].jwks = <<K1>>
        /\ result[p].status = HTTP_401_UNAUTHORIZED

\* p's token is well-formed, signed by the key of the list that has its kid,
\* and carries the configured issuer and audience.
SignedAndClaimsMatch(p) ==
    LET token == loc[p].token IN
    /\ token.form = "jwt"
    /\ \E i \in 1..Len(loc[p].jwks) :
           loc[p].jwks[i].kid = token.kid /\ loc[p].jwks[i].n = token.signer
    /\ token.payload.iss = cognito_issuer(settings)
    /\ token.payload.aud = settings.cognito_client_id

\* C7: a token with a valid signature and matching issuer and audience fails
\* with "Token has expired" whenever exp <= now (exp = now included), and
\* succeeds only when exp > now.
C7_ExpiredUnlessStrictlyFuture ==
    \A p \in Threads :
        (Verified(p) /\ SignedAndClaimsMatch(p) /\ "exp" \in DOMAIN loc[p].token.payload) =>
            LET exp == loc[p].token.payload.exp IN
            /\ exp <= log[p].verified_at =>
                   /\ pc[p] = "done"
                   /\ result[p] = [status |-> HTTP_401_UNAUTHORIZED,
                                   detail |-> "Token has expired", body |-> << >>]
            /\ (pc[p] = "respond" \/ result[p].status = 200) => exp > log[p].verified_at

\* C8: with a provider configured, a token signed by a key of the key set, with
\* the configured audience and issuer and exp in the future, verifies, and the
\* identity is the token's sub, email and token_use and nothing else.
C8_RoundTrip ==
    \A p \in Threads :
        (/\ Verified(p)
         /\ SignedAndClaimsMatch(p)
         /\ "exp" \in DOMAIN loc[p].token.payload
         /\ loc[p].token.payload.exp > log[p].verified_at) =>
            LET c == loc[p].token.payload IN
            /\ loc[p].claims = <<c>>
            /\ pc[p] = "done" =>
                   /\ result[p].status = 200
                   /\ Len(result[p].body) = 1
                   /\ DOMAIN result[p].body[1] = {"sub", "email", "token_use"}
                   /\ result[p].body[1].sub = c.sub
                   /\ result[p].body[1].token_use = c.token_use
                   /\ result[p].body[1].email = (IF "email" \in DOMAIN c THEN c.email ELSE None)

\* A token of K1 with exp in the future has been answered with its identity.
C8_Witness ==
    \E p \in Threads :
        /\ Verified(p)
        /\ SignedAndClaimsMatch(p)
        /\ pc[p] = "done"
        /\ result[p].status = 200
        /\ result[p].body = <<[sub |-> "user-1", email |-> "alice@example.com",
                               token_use |-> "id"]>>
        /\ "username" \in DOMAIN loc[p].token.payload

\* C9: with a header credential A and a cookie B, exactly A reaches the
\* verifier and B never does; an invalid A fails the request although B is a
\* valid token.
C9_HeaderFirst ==
    \A p \in Threads :
        (req[p].cred # << >> /\ req[p].cookie # << >>) =>
            /\ pc[p] # "decode" => log[p].verified = <<req[p].cred[1]>>
            /\ pc[p] = "decode" => log[p].verified = << >> /\ loc[p].token = req[p].cred[1]
            /\ (/\ Configured
                /\ pc[p] = "done"
                /\ req[p].cred[1] = GarbageToken) => result[p].status # 200

\* A garbage header beside a good cookie has been refused.
C9_Witness ==
    \E p \in Threads :
        /\ Configured
        /\ req[p].cred = <<GarbageToken>>
        /\ req[p].cookie = <<GoodToken(settings, K1, StartTime + 1)>>
        /\ log[p].verified = <<GarbageToken>>
        /\ loc[p].jwks = <<K1>>
        /\ pc[p] = "done"
        /\ result[p].status = HTTP_401_UNAUTHORIZED

\* The request of p carries no header credential and no non-empty cookie.
NoTokenSupplied(p) ==
    /\ req[p].cred = << >>
    /\ req[p].cookie = << >> \/ req[p].cookie = <<EmptyToken>>

\* C10: without a header credential and without a non-empty cookie the request
\* fails with 401 "no token supplied" in every configuration, the verifier and
\* the key cache are not called, and no request that supplies a token gets
\* that failure.
C10_NoTokenIs401 ==
    \A p \in Threads :
        pc[p] # "idle" =>
            /\ NoTokenSupplied(p) =>
                   /\ pc[p] = "done"
                   /\ result[p] = [status |-> HTTP_401_UNAUTHORIZED,
                                   detail |-> NoTokenDetail, body |-> << >>]
                   /\ log[p].verified = << >>
                   /\ log[p].jwks_calls = 0
                   /\ log[p].fetches = 0
            /\ ~NoTokenSupplied(p) => result[p].detail # NoTokenDetail

\* A request with an empty cookie and no header is refused in mock mode.
C10_Witness ==
    \E p \in Threads :
        /\ ~Configured
        /\ pc[p] = "done"
        /\ req[p] = [cred |-> << >>, cookie |-> <<EmptyToken>>]
        /\ result[p].detail = NoTokenDetail

\* The identity of mock mode.
Placeholder == [sub |-> "mock-user-id", email |-> "mock@example.com", token_use |-> "access"]

\* p's request supplied a token and _decode_and_validate_token is through with it.
Decoded(p) == log[p].verified # << >> /\ pc[p] \in {"respond", "done"}

\* p's request went through mock mode: the placeholder claims, no call of
\* _get_jwks, no fetch, no jwt.decode, and the key cache as the module set it up.
Bypassed(p) ==
    /\ loc[p].claims = <<Placeholder>>
    /\ log[p].jwks_calls = 0
    /\ log[p].fetches = 0
    /\ log[p].resp = << >>
    /\ log[p].verified_at = 0
    /\ loc[p].jwks = << >>
    /\ nfetch = 0
    /\ jwks_cache = [keys |-> << >>, fetched_at |-> 0]
    /\ pc[p] = "done" => result[p] = [status |-> 200, detail |-> "", body |-> <<Placeholder>>]

\* C11: with neither the user-pool id nor the client id configured, every token
\* is answered with the placeholder identity, without a key-set fetch or a
\* signature check, and the key cache is left as it was.
C11_DegradedModePlaceholder ==
    \A p \in Threads :
        (/\ settings.cognito_user_pool_id = ""
         /\ settings.cognito_client_id = ""
         /\ Decoded(p)) => Bypassed(p)

\* A garbage token has been answered with the placeholder, nothing configured.
C11_Witness ==
    \E p \in Threads :
        /\ settings.cognito_user_pool_id = ""
        /\ settings.cognito_client_id = ""
        /\ pc[p] = "done"
        /\ log[p].verified = <<GarbageToken>>
        /\ result[p].status = 200
        /\ result[p].body = <<Placeholder>>

\* Exactly one of the two ids is configured.
OneConfigured == (settings.cognito_user_pool_id = "") # (settings.cognito_client_id = "")

\* C12: with exactly one of the two ids configured every token still gets the
\* placeholder with no key fetch and no check of the token; an identity comes
\* out of a real verification only when both ids are set.
C12_BypassWhenEitherEmpty ==
    \A p \in Threads :
        /\ (OneConfigured /\ Decoded(p)) => Bypassed(p)
        /\ (/\ pc[p] = "done"
            /\ result[p].status = 200
            /\ log[p].jwks_calls > 0 \/ log[p].verified_at > 0
                  \/ result[p].body # <<Placeholder>>) => Configured

\* A token signed by no key of the provider gets the placeholder with only
\* the user-pool id configured.
C12_Witness ==
    \E p \in Threads :
        /\ settings.cognito_user_pool_id # ""
        /\ settings.cognito_client_id = ""
        /\ pc[p] = "done"
        /\ loc[p].token.form = "jwt"
        /\ loc[p].token.signer = 0
        /\ result[p].body = <<Placeholder>>
        /\ log[p].jwks_calls = 0

\* The stored fetched_at does not decrease in this step.
FetchedAtGrows == jwks_cache'.fetched_at >= jwks_cache.fetched_at

\* A call that returns the cached keys in this step (line 38) returns keys
\* written by a call that started less than the TTL before this one.
ServedWithinTTL ==
    \A p \in Threads :
        (pc[p] = "return_cached" /\ pc'[p] = "verify") =>
            loc[p].current_time - origin.keys_time < JWKS_CACHE_TTL

\* C13: under any interleaving of concurrent calls with advancing time, the
\* stored fetched_at never decreases, and keys served from the cache without a
\* fetch were fetched by a call whose start time t satisfies now - t < TTL.
C13_MonotoneAndWithinTTL == [][FetchedAtGrows /\ ServedWithinTTL]_vars
====
